---- MODULE Spec2Model ----
(***************************************************************************)
(* MatrixHttpApi (src/src/http-api/index.ts): the content-upload client.   *)
(* uploadContent starts one upload on the streaming transport              *)
(* (XMLHttpRequest) or on the delegated transport (authedRequest), keeps   *)
(* the in-flight uploads in this.uploads, and settles a deferred whose     *)
(* promise, after a finally-cleanup, is the future handed to the caller.   *)
(* The event loop is single-threaded: every action below is one callback   *)
(* run to completion; a promise reaction (the finally-cleanup, the         *)
(* delegate's then) is a microtask of its own.                             *)
(***************************************************************************)
EXTENDS Integers, Sequences, FiniteSets, TLC

\* ---------------------------------------------------------------- bounds
MaxUploads == 2      \* uploadContent calls in one run
MaxLoaded == 1       \* bytes of a payload: progress ticks report 1..MaxLoaded

Uploads == 1..MaxUploads

\* the delay of both setTimeout calls, in ms
TIMEOUT_MS == 30000

\* how far the clock may jump in one step (ms); it never jumps over a deadline
Delays == {15000}

\* ---------------------------------------------------------------- values
\* Raw response texts the transport may deliver.
BodyEmpty == ""
BodyOk == "{content_uri:mxc://srv/media}"
BodyErr == "{errcode:M_TOO_LARGE,error:too big}"
BodyBad == "<html>gateway</html>"
Bodies == {BodyEmpty, BodyOk, BodyErr, BodyBad}
\* What the streaming transport may end with: <<status, responseText>>.
Responses ==
    { <<0, BodyEmpty>>, <<0, BodyOk>>,
      <<200, BodyEmpty>>, <<200, BodyOk>>, <<200, BodyBad>>,
      <<400, BodyEmpty>>, <<400, BodyErr>>, <<400, BodyBad>> }

\* A JavaScript value a future can resolve to: nothing, a string, or an object.
JsonNone == [type |-> "none", text |-> "", content_uri |-> "", errcode |-> "", error |-> ""]
JsonText(s) == [type |-> "string", text |-> s, content_uri |-> "", errcode |-> "", error |-> ""]
JsonObj(uri, code, msg) ==
    [type |-> "object", text |-> "", content_uri |-> uri, errcode |-> code, error |-> msg]

\* JSON.parse: which texts parse, and to what.
CanParse(text) == text \in {BodyOk, BodyErr}
JSONParse(text) ==
    CASE text = BodyOk -> JsonObj("mxc://srv/media", "", "")
      [] text = BodyErr -> JsonObj("", "M_TOO_LARGE", "too big")
      [] OTHER -> JsonNone

\* A JavaScript error object.
NoError == [name |-> "", message |-> "", cause |-> "", httpStatus |-> 0, errcode |-> "", error |-> ""]
MkError(name, message) ==
    [name |-> name, message |-> message, cause |-> "", httpStatus |-> 0, errcode |-> "", error |-> ""]
DOMException(message, name) == MkError(name, message)
SyntaxError == MkError("SyntaxError", "Unexpected token")
ConnectionError(message, cause) ==
    [name |-> "ConnectionError", message |-> message, cause |-> cause.message,
     httpStatus |-> 0, errcode |-> "", error |-> ""]

\* The error classifier: a remote error carrying the status, and the server's
\* errcode and error when the body is structured.
parseErrorResponse(status, body) ==
    IF CanParse(body) /\ JSONParse(body).errcode # ""
    THEN [name |-> "MatrixError", message |-> JSONParse(body).error, cause |-> "",
          httpStatus |-> status, errcode |-> JSONParse(body).errcode,
          error |-> JSONParse(body).error]
    ELSE [name |-> "HTTPError", message |-> "Server returned error", cause |-> "",
          httpStatus |-> status, errcode |-> "", error |-> ""]

\* ---------------------------------------------------------------- request
\* A JavaScript string that may be undefined; "" and undefined are falsy.
Undefined == "<undefined>"
Truthy(v) == v \notin {Undefined, ""}
\* a ?? b
Coalesce(a, b) == IF a = Undefined THEN b ELSE a
\* encodeURIComponent: what it does to the strings used here
encodeURIComponent(str) ==
    CASE str = "my file.png" -> "my%20file.png"
      [] str = "syt_a/b" -> "syt_a%2Fb"
      [] OTHER -> str

\* this.opts of the client: useAuthorizationHeader and accessToken
Configs ==
    [useAuthorizationHeader : BOOLEAN, accessToken : {Undefined, "", "syt_a/b"}]
DefaultConfig == [useAuthorizationHeader |-> TRUE, accessToken |-> "syt_a/b"]
\* the payloads: a File with a name, a Buffer without
RequestFiles == {[name |-> "photo.png"], [name |-> Undefined]}
Files == {[name |-> "photo.png"]}
NoFile == [name |-> Undefined]

\* no AbortSignal
NoSignal == -1
\* The request a call issues: its transport, the filename and access_token
\* query parameters, the Authorization header and the abort signal handed over.
NoRequest ==
    [transport |-> "none", filename |-> Undefined, access_token |-> Undefined,
     Authorization |-> Undefined, abortSignal |-> NoSignal]

\* line 72: opts.includeFilename ?? true
includeFilename(o) == Coalesce(o.includeFilename, "true") = "true"
\* a fileName that prefers the payload's name
fileName_FileFirst(f, o) == Coalesce(f.name, o.name)
\* line 77: opts.name ?? file.name
fileName(f, o) == Coalesce(o.name, f.name)
\* lines 138-140: the value given to searchParams.set("filename", ...)
xhrFilename(f, o) ==
    IF includeFilename(o) /\ Truthy(fileName(f, o))
    THEN encodeURIComponent(fileName(f, o)) ELSE Undefined
\* lines 158-160: queryParams.filename
queryParamsFilename(f, o) ==
    IF includeFilename(o) /\ Truthy(fileName(f, o)) THEN fileName(f, o) ELSE Undefined
\* lines 142-144: the value given to searchParams.set("access_token", ...)
xhrAccessToken(cfg) ==
    IF ~cfg.useAuthorizationHeader /\ Truthy(cfg.accessToken)
    THEN encodeURIComponent(cfg.accessToken) ELSE Undefined
\* an Authorization header set whenever there is a token
xhrAuthorization_Always(cfg) ==
    IF Truthy(cfg.accessToken) THEN "Bearer " \o cfg.accessToken ELSE Undefined
\* lines 147-149: the Authorization header
xhrAuthorization(cfg) ==
    IF cfg.useAuthorizationHeader /\ Truthy(cfg.accessToken)
    THEN "Bearer " \o cfg.accessToken ELSE Undefined
\* lines 136-151: the request of the streaming transport
xhrRequest(cfg, f, o) ==
    [transport |-> "xhr", filename |-> xhrFilename(f, o),
     access_token |-> xhrAccessToken(cfg), Authorization |-> xhrAuthorization(cfg),
     abortSignal |-> NoSignal]
\* lines 157-170: the request handed to authedRequest, with the signal of
\* controller c; authedRequest attaches the credential itself
delegatedRequest(f, o, c) ==
    [transport |-> "authedRequest", filename |-> queryParamsFilename(f, o),
     access_token |-> Undefined, Authorization |-> Undefined, abortSignal |-> c]

\* ---------------------------------------------------------------- deferred
\* utils.defer(): a promise with its resolve and reject; settling is once only.
PendingDefer == [state |-> "pending", value |-> JsonNone, error |-> NoError]
DeferResolve(d, v) ==
    IF d.state = "pending" THEN [state |-> "resolved", value |-> v, error |-> NoError] ELSE d
DeferReject(d, e) ==
    IF d.state = "pending" THEN [state |-> "rejected", value |-> JsonNone, error |-> e] ELSE d

\* ---------------------------------------------------------------- registry
\* utils.removeElement(array, fn): splices out the first element fn accepts.
RECURSIVE removeElement(_, _)
removeElement(array, elem) ==
    IF array = <<>> THEN <<>>
    ELSE IF Head(array) = elem THEN Tail(array)
    ELSE <<Head(array)>> \o removeElement(Tail(array), elem)

\* ---------------------------------------------------------------- state
VARIABLES
    hasXHR,        \* global.XMLHttpRequest exists: the streaming transport is used
    onlyData,      \* this.opts.onlyData (read on the delegated transport only)
    config,        \* this.opts.useAuthorizationHeader and this.opts.accessToken
    file,          \* per upload: the payload of its uploadContent call
    sent,          \* per upload: the request its call issued
    delivered,     \* per upload: what authedRequest settled with, if it has
    pc,            \* per upload: "idle", "at175" (inside uploadContent, transport
                   \* issued, about to run line 175), "returned"
    opts,          \* per upload: the options of its uploadContent call
    aborted,       \* per AbortController: signal.aborted
    xhr,           \* per upload: the XMLHttpRequest (readyState, status, responseText)
    timeoutTimer,  \* per upload: the pending callbacks.setTimeout, if any
    upload,        \* per upload: the Upload record's loaded and total
    defer,         \* per upload: the deferred of line 84
    finallyRan,    \* per upload: the finally-callback of line 176 has run, so
                   \* upload.promise (the returned future) has settled
    request,       \* per upload: the authedRequest call ("none", "pending", "settled")
    uploads,       \* this.uploads
    silence,       \* per upload: while its transfer is in flight, the ms since it
                   \* started or last ticked; kept when it is timed out, else 0
    timedOut,      \* per upload: timeoutFn has run
    cancelled      \* per upload: cancelUpload(its future) returned true while its
                   \* transport had not settled

vars == <<hasXHR, onlyData, config, file, sent, delivered, pc, opts, aborted, xhr,
          timeoutTimer, upload, defer,
          finallyRan, request, uploads, silence, timedOut, cancelled>>

\* AbortController 0 is the one the caller owns and may pass in
\* opts.abortController; controller u is the one uploadContent creates for u.
CallerController == 0
Controllers == {CallerController} \cup Uploads

\* The options a call is made with.
OptsSet ==
    { [abortController |-> "new", rawResponse |-> FALSE, onlyContentUri |-> FALSE,
       name |-> Undefined, includeFilename |-> Undefined],
      [abortController |-> "caller", rawResponse |-> TRUE, onlyContentUri |-> FALSE,
       name |-> "my file.png", includeFilename |-> "true"],
      [abortController |-> "new", rawResponse |-> FALSE, onlyContentUri |-> TRUE,
       name |-> Undefined, includeFilename |-> "false"] }
NoOpts == [abortController |-> "new", rawResponse |-> FALSE, onlyContentUri |-> FALSE,
           name |-> Undefined, includeFilename |-> Undefined]
\* the options over which the request of a call is examined
RequestOpts ==
    [abortController : {"new"}, rawResponse : {FALSE}, onlyContentUri : {FALSE},
     name : {Undefined, "", "my file.png"}, includeFilename : {Undefined, "true", "false"}]

\* line 73: opts.abortController ?? new AbortController()
abortController(u) ==
    IF opts[u].abortController = "caller" THEN CallerController ELSE u

NoXhr == [readyState |-> "NONE", status |-> 0, responseText |-> ""]
\* The timer the variable timeoutTimer refers to, and `orphans`, the number of
\* timers of the upload still armed that the variable no longer refers to.
NoTimer == [armed |-> FALSE, remaining |-> 0, orphans |-> 0]
\* callbacks.setTimeout(timeoutFn, ms) and callbacks.clearTimeout(timer)
setTimeout(ms) == [armed |-> TRUE, remaining |-> ms, orphans |-> 0]
clearTimeout(timer) == [armed |-> FALSE, remaining |-> 0, orphans |-> timer.orphans]
\* timeoutTimer = new, over the timer old: an old timer left armed is orphaned
assignTimer(old, new) ==
    [new EXCEPT !.orphans = old.orphans + (IF old.armed THEN 1 ELSE 0)]

InRegistry(u) == \E i \in 1..Len(uploads) : uploads[i] = u
Settled(u) == defer[u].state # "pending"
\* the reaction of defer.promise.finally is queued and has not run
PendingFinally(u) == pc[u] = "returned" /\ Settled(u) /\ ~finallyRan[u]

\* the transport of upload u has been issued and has not settled
InFlight(u) == IF hasXHR THEN xhr[u].readyState = "OPENED" ELSE request[u] = "pending"

\* getCurrentUploads(): the live list
getCurrentUploads == uploads

\* upload.promise = defer.promise.finally(...): settles, with the deferred's
\* outcome, once the finally-callback has run
promise(u) == IF finallyRan[u] THEN defer[u] ELSE PendingDefer

\* what authedRequest has settled with: nothing yet
NotDelivered == [state |-> "none", value |-> JsonNone, error |-> NoError]
\* the Response authedRequest resolves with when onlyData is off
Response(body) == [type |-> "response", text |-> body, content_uri |-> "", errcode |-> "", error |-> ""]

\* the client after construction, whatever its configuration
Constructed ==
    /\ hasXHR \in BOOLEAN
    /\ onlyData \in BOOLEAN
    /\ hasXHR => ~onlyData       \* onlyData is not read on the streaming transport
    /\ file = [u \in Uploads |-> NoFile]
    /\ sent = [u \in Uploads |-> NoRequest]
    /\ delivered = [u \in Uploads |-> NotDelivered]
    /\ pc = [u \in Uploads |-> "idle"]
    /\ opts = [u \in Uploads |-> NoOpts]
    /\ aborted = [c \in Controllers |-> FALSE]
    /\ xhr = [u \in Uploads |-> NoXhr]
    /\ timeoutTimer = [u \in Uploads |-> NoTimer]
    /\ upload = [u \in Uploads |-> [loaded |-> 0, total |-> 0]]
    /\ defer = [u \in Uploads |-> PendingDefer]
    /\ finallyRan = [u \in Uploads |-> FALSE]
    /\ request = [u \in Uploads |-> "none"]
    /\ uploads = <<>>
    /\ silence = [u \in Uploads |-> 0]
    /\ timedOut = [u \in Uploads |-> FALSE]
    /\ cancelled = [u \in Uploads |-> FALSE]

Init == Constructed /\ config = DefaultConfig
\* every configuration of the credential
RequestInit == Constructed /\ config \in Configs

\* ---------------------------------------------------------------- scheduling
\* uploadContent runs to completion: nothing else runs inside it.
NoCallInProgress == \A u \in Uploads : pc[u] # "at175"
\* A task (a timer, a transport event) starts only with the microtask queue empty.
TaskMayStart == NoCallInProgress /\ \A u \in Uploads : ~PendingFinally(u)
\* Caller code and promise reactions may run as microtasks ahead of a queued
\* finally-callback, except when the deferred was settled inside a transport or
\* timer callback: that task began with the queue empty, so the finally-callback
\* is the next thing to run (the handle is then still registered).
MicrotaskMayRun ==
    NoCallInProgress /\ \A u \in Uploads : ~(hasXHR /\ PendingFinally(u) /\ InRegistry(u))

\* ---------------------------------------------------------------- handlers
\* lines 101-120: what the DONE branch of xhr.onreadystatechange throws
Thrown(status, responseText) ==
    IF status = 0 THEN DOMException("", "AbortError")
    ELSE IF responseText = "" THEN MkError("Error", "No response body.")
    ELSE IF status >= 400 THEN NoError
    ELSE IF ~CanParse(responseText) THEN SyntaxError
    ELSE NoError

\* the DONE branch without the err.name test of line 115
onreadystatechange_WrapAll(d, status, responseText) ==
    LET err == Thrown(status, responseText) IN
    IF err # NoError
    THEN DeferReject(d, ConnectionError("request failed", err))
    ELSE IF status >= 400
         THEN DeferReject(d, parseErrorResponse(status, responseText))
         ELSE DeferResolve(d, JSONParse(responseText))

\* the DONE branch without the empty-body test of lines 105-107
onreadystatechange_NoEmptyCheck(d, status, responseText) ==
    IF status = 0 THEN DeferReject(d, DOMException("", "AbortError"))
    ELSE IF status >= 400
         THEN DeferReject(d, parseErrorResponse(status, responseText))
         ELSE IF CanParse(responseText)
              THEN DeferResolve(d, JSONParse(responseText))
              ELSE DeferReject(d, ConnectionError("request failed", SyntaxError))

\* the DONE branch with `status > 400` for the test of line 109
onreadystatechange_Above400(d, status, responseText) ==
    IF status = 0 THEN DeferReject(d, DOMException("", "AbortError"))
    ELSE IF responseText = ""
         THEN DeferReject(d, ConnectionError("request failed",
                                             MkError("Error", "No response body.")))
    ELSE IF status > 400
         THEN DeferReject(d, parseErrorResponse(status, responseText))
         ELSE IF CanParse(responseText)
              THEN DeferResolve(d, JSONParse(responseText))
              ELSE DeferReject(d, ConnectionError("request failed", SyntaxError))

\* the DONE branch with the status test of line 109 ahead of the empty-body test
onreadystatechange_StatusFirst(d, status, responseText) ==
    IF status = 0 THEN DeferReject(d, DOMException("", "AbortError"))
    ELSE IF status >= 400
         THEN DeferReject(d, parseErrorResponse(status, responseText))
    ELSE IF responseText = ""
         THEN DeferReject(d, ConnectionError("request failed",
                                             MkError("Error", "No response body.")))
         ELSE IF CanParse(responseText)
              THEN DeferResolve(d, JSONParse(responseText))
              ELSE DeferReject(d, ConnectionError("request failed", SyntaxError))

\* lines 99-120: the DONE branch of xhr.onreadystatechange, on the deferred d
onreadystatechange(d, status, responseText) ==
    LET err == Thrown(status, responseText) IN
    IF err # NoError
    THEN IF err.name = "AbortError"
         THEN DeferReject(d, err)
         ELSE DeferReject(d, ConnectionError("request failed", err))
    ELSE IF status >= 400
         THEN DeferReject(d, parseErrorResponse(status, responseText))
         ELSE DeferResolve(d, JSONParse(responseText))

\* xhr.abort() on upload u: an XMLHttpRequest that was sent and is not done
\* goes to DONE with status 0, fires readystatechange synchronously (lines
\* 97-123), and ends UNSENT; one that is done ends UNSENT with no event.
xhrAbort(u) ==
    IF xhr[u].readyState = "OPENED"
    THEN [xhr |-> [readyState |-> "UNSENT", status |-> 0, responseText |-> ""],
          timeoutTimer |-> clearTimeout(timeoutTimer[u]),
          defer |-> onreadystatechange(defer[u], 0, "")]
    ELSE IF xhr[u].readyState = "DONE"
    THEN [xhr |-> [readyState |-> "UNSENT", status |-> 0, responseText |-> ""],
          timeoutTimer |-> timeoutTimer[u],
          defer |-> defer[u]]
    ELSE [xhr |-> xhr[u], timeoutTimer |-> timeoutTimer[u], defer |-> defer[u]]

\* a timeoutFn that rejects and leaves the transfer running
timeoutFn_NoAbort(u) ==
    [xhr |-> xhr[u], timeoutTimer |-> timeoutTimer[u],
     defer |-> DeferReject(defer[u], MkError("Error", "Timeout"))]

\* lines 89-92: timeoutFn
timeoutFn(u) ==
    LET a == xhrAbort(u) IN
    [a EXCEPT !.defer = DeferReject(a.defer, MkError("Error", "Timeout"))]

\* no initial timeout armed
initialTimer_NotArmed == NoTimer

\* line 95: the initial timeout
initialTimer == setTimeout(TIMEOUT_MS)

\* a progress handler that clears the timer and does not set it again
onprogressTimer_NoRearm(timer) == clearTimeout(timer)

\* a progress handler that sets a new timer without clearing the old one
onprogressTimer_NoClear(timer) == assignTimer(timer, setTimeout(TIMEOUT_MS))

\* lines 125-134: what xhr.upload.onprogress leaves in timeoutTimer
onprogressTimer(timer) == assignTimer(clearTimeout(timer), setTimeout(TIMEOUT_MS))

\* abort listeners of which the second removes the handle and rejects nothing
abortListeners_NoReject(u) ==
    IF hasXHR THEN xhrAbort(u)
    ELSE [xhr |-> xhr[u], timeoutTimer |-> timeoutTimer[u], defer |-> defer[u]]

\* lines 153-155 and 179-182: the two abort listeners of upload u, in the order
\* they were added (the first exists on the streaming transport only)
abortListeners(u) ==
    LET a == IF hasXHR THEN xhrAbort(u)
             ELSE [xhr |-> xhr[u], timeoutTimer |-> timeoutTimer[u], defer |-> defer[u]]
    IN [a EXCEPT !.defer = DeferReject(a.defer, DOMException("Aborted", "AbortError"))]

\* the uploads whose listeners a signal holds: a listener added to a signal that
\* has already fired is never called, and a signal fires once
Listeners(c) == {u \in Uploads : pc[u] = "returned" /\ abortController(u) = c}

RECURSIVE removeEach(_, _)
removeEach(array, S) ==
    IF S = {} THEN array
    ELSE LET u == CHOOSE x \in S : TRUE IN removeEach(removeElement(array, u), S \ {u})

\* a call that does not push its handle
registerUpload_NoPush(array, u) == array
\* a finally-callback that removes nothing
finallyCleanup_NoRemove(array, u) == array

\* a finally-callback that shifts the first handle out, whichever it is
finallyCleanup_RemoveHead(array, u) == IF array = <<>> THEN array ELSE Tail(array)
\* a finally-callback that pops the last handle, whichever it is
finallyCleanup_RemoveLast(array, u) ==
    IF array = <<>> THEN array ELSE SubSeq(array, 1, Len(array) - 1)
\* an abort listener that empties the registry
listenerCleanup_All(array, S) == <<>>

\* line 183
registerUpload(array, u) == Append(array, u)
\* lines 176-178
finallyCleanup(array, u) == removeElement(array, u)
\* line 180
listenerCleanup(array, S) == removeEach(array, S)

\* ---------------------------------------------------------------- actions
\* uploadContent(file, o), lines 71-173: the deferred is created and the
\* transport is issued (xhr.open, xhr.send and the first abort listener, or
\* authedRequest); the handle is not yet in this.uploads.
UploadContentStart(u, f, o) ==
    /\ MicrotaskMayRun
    /\ pc[u] = "idle"
    /\ \A v \in Uploads : v < u => pc[v] # "idle"
    /\ pc' = [pc EXCEPT ![u] = "at175"]
    /\ opts' = [opts EXCEPT ![u] = o]
    /\ file' = [file EXCEPT ![u] = f]
    /\ sent' = [sent EXCEPT ![u] =
           IF hasXHR THEN xhrRequest(config, f, o)
           ELSE delegatedRequest(f, o, IF o.abortController = "caller"
                                       THEN CallerController ELSE u)]
    /\ defer' = [defer EXCEPT ![u] = PendingDefer]
    /\ upload' = [upload EXCEPT ![u] = [loaded |-> 0, total |-> 0]]
    /\ IF hasXHR
       THEN /\ timeoutTimer' = [timeoutTimer EXCEPT ![u] = initialTimer]
            /\ xhr' = [xhr EXCEPT ![u] = [readyState |-> "OPENED", status |-> 0,
                                          responseText |-> ""]]
            /\ UNCHANGED request
       ELSE /\ request' = [request EXCEPT ![u] = "pending"]
            /\ UNCHANGED <<timeoutTimer, xhr>>
    /\ silence' = [silence EXCEPT ![u] = 0]
    /\ UNCHANGED <<hasXHR, onlyData, config, delivered, aborted, finallyRan, uploads, timedOut,
                   cancelled>>

\* uploadContent, lines 175-185: the finally-cleanup and the second abort
\* listener are attached, the handle is pushed, the future is returned.
UploadContentReturn(u) ==
    /\ pc[u] = "at175"
    /\ pc' = [pc EXCEPT ![u] = "returned"]
    /\ uploads' = registerUpload(uploads, u)
    /\ UNCHANGED <<hasXHR, onlyData, config, file, sent, delivered,
                   opts, aborted, xhr, timeoutTimer, upload, defer,
                   finallyRan, request, silence, timedOut, cancelled>>

\* abortController.abort() on controller c: a signal fires once, calling the
\* listeners it holds then.
AbortDispatch(c) ==
    IF aborted[c]
    THEN UNCHANGED <<aborted, xhr, timeoutTimer, defer, uploads, silence>>
    ELSE LET L == Listeners(c) IN
         /\ aborted' = [aborted EXCEPT ![c] = TRUE]
         /\ xhr' = [u \in Uploads |-> IF u \in L THEN abortListeners(u).xhr ELSE xhr[u]]
         /\ timeoutTimer' = [u \in Uploads |->
                IF u \in L THEN abortListeners(u).timeoutTimer ELSE timeoutTimer[u]]
         /\ defer' = [u \in Uploads |-> IF u \in L THEN abortListeners(u).defer ELSE defer[u]]
         /\ uploads' = listenerCleanup(uploads, L)
         /\ silence' = [u \in Uploads |->
                IF u \in L /\ xhr[u].readyState = "OPENED" THEN 0 ELSE silence[u]]

\* lines 188-193: what cancelUpload(the future of upload u) returns, called now
cancelUploadReturns(u) == InRegistry(u)

\* lines 187-194: cancelUpload(the future of upload u)
CancelUpload(u) ==
    /\ MicrotaskMayRun
    /\ pc[u] = "returned"
    /\ IF cancelUploadReturns(u)
       THEN AbortDispatch(abortController(u))
       ELSE UNCHANGED <<aborted, xhr, timeoutTimer, defer, uploads, silence>>
    /\ cancelled' = [cancelled EXCEPT ![u] = @ \/ (cancelUploadReturns(u) /\ InFlight(u))]
    /\ UNCHANGED <<hasXHR, onlyData, config, file, sent, delivered,
                   pc, opts, upload, finallyRan, request, timedOut>>

\* the caller aborts the controller it owns (before or after passing it in)
CallerAbort ==
    /\ MicrotaskMayRun
    /\ ~aborted[CallerController]
    /\ AbortDispatch(CallerController)
    /\ UNCHANGED <<hasXHR, onlyData, config, file, sent, delivered,
                   pc, opts, upload, finallyRan, request, timedOut,
                   cancelled>>

\* lines 176-178: the finally-callback of the deferred's promise
Finally(u) ==
    /\ NoCallInProgress
    /\ PendingFinally(u)
    /\ uploads' = finallyCleanup(uploads, u)
    /\ finallyRan' = [finallyRan EXCEPT ![u] = TRUE]
    /\ UNCHANGED <<hasXHR, onlyData, config, file, sent, delivered,
                   pc, opts, aborted, xhr, timeoutTimer, upload, defer,
                   request, silence, timedOut, cancelled>>

\* lines 97-123: the transport reaches DONE with a response (or, with status 0,
\* a network failure)
XhrDone(u, status, responseText) ==
    /\ TaskMayStart
    /\ xhr[u].readyState = "OPENED"
    /\ xhr' = [xhr EXCEPT ![u] = [readyState |-> "DONE", status |-> status,
                                  responseText |-> responseText]]
    /\ timeoutTimer' = [timeoutTimer EXCEPT ![u] = clearTimeout(timeoutTimer[u])]
    /\ defer' = [defer EXCEPT ![u] = onreadystatechange(defer[u], status, responseText)]
    /\ silence' = [silence EXCEPT ![u] = 0]
    /\ UNCHANGED <<hasXHR, onlyData, config, file, sent, delivered,
                   pc, opts, aborted, upload, finallyRan, request,
                   uploads, timedOut, cancelled>>

\* lines 125-134: a progress tick reporting `loaded` bytes
Progress(u, loaded) ==
    /\ TaskMayStart
    /\ xhr[u].readyState = "OPENED"
    /\ loaded > upload[u].loaded
    /\ loaded <= MaxLoaded
    /\ timeoutTimer' = [timeoutTimer EXCEPT ![u] = onprogressTimer(timeoutTimer[u])]
    /\ upload' = [upload EXCEPT ![u] = [loaded |-> loaded, total |-> MaxLoaded]]
    /\ silence' = [silence EXCEPT ![u] = 0]
    /\ UNCHANGED <<hasXHR, onlyData, config, file, sent, delivered,
                   pc, opts, aborted, xhr, defer, finallyRan, request,
                   uploads, timedOut, cancelled>>

\* the deadline of upload u's timer is reached: timeoutFn runs (lines 89-92)
TimerFire(u) ==
    /\ TaskMayStart
    /\ timeoutTimer[u].armed
    /\ timeoutTimer[u].remaining = 0
    /\ xhr' = [xhr EXCEPT ![u] = timeoutFn(u).xhr]
    \* the timer that fired is spent
    /\ timeoutTimer' = [timeoutTimer EXCEPT ![u] =
           [timeoutFn(u).timeoutTimer EXCEPT !.armed = FALSE, !.remaining = 0]]
    /\ defer' = [defer EXCEPT ![u] = timeoutFn(u).defer]
    /\ timedOut' = [timedOut EXCEPT ![u] = TRUE]
    /\ UNCHANGED <<hasXHR, onlyData, config, file, sent, delivered,
                   pc, opts, aborted, upload, finallyRan, request,
                   uploads, silence, cancelled>>

\* d ms pass: no timer is overrun, every armed timer comes d closer to its
\* deadline, every transfer in flight has been silent for d longer
SilenceCap == TIMEOUT_MS + TIMEOUT_MS
Min(a, b) == IF a <= b THEN a ELSE b
Advance(d) ==
    /\ TaskMayStart
    /\ d > 0
    /\ \E u \in Uploads : xhr[u].readyState = "OPENED"
    /\ \A u \in Uploads : timeoutTimer[u].armed => d <= timeoutTimer[u].remaining
    /\ timeoutTimer' = [u \in Uploads |->
           IF timeoutTimer[u].armed
           THEN [timeoutTimer[u] EXCEPT !.remaining = @ - d]
           ELSE timeoutTimer[u]]
    /\ silence' = [u \in Uploads |->
           IF xhr[u].readyState = "OPENED" THEN Min(silence[u] + d, SilenceCap)
           ELSE silence[u]]
    /\ UNCHANGED <<hasXHR, onlyData, config, file, sent, delivered,
                   pc, opts, aborted, xhr, upload, defer, finallyRan,
                   request, uploads, timedOut, cancelled>>

\* the delays the clock may take: a fixed one, or up to the next deadline
Deadlines == {timeoutTimer[u].remaining : u \in {v \in Uploads : timeoutTimer[v].armed}}

\* what authedRequest resolves with for a response carrying `body`: the
\* parsed body when onlyData is on, the Response otherwise
DelegateValue(body) == IF onlyData THEN JSONParse(body) ELSE Response(body)

\* a then-callback that hands the delegate's value on whatever onlyData is
delegateThen_NoJson(d, response) == DeferResolve(d, response)

\* lines 170-172: the then-callback on the delegate's value and the forwarding
\* of its result, or of the rejection of response.json(), to the deferred d
delegateThen(d, response) ==
    IF onlyData THEN DeferResolve(d, response)
    ELSE IF CanParse(response.text)
         THEN DeferResolve(d, JSONParse(response.text))
         ELSE DeferReject(d, SyntaxError)

\* lines 164-172: authedRequest resolved with a response carrying `body`; the
\* then-callback of line 171 and the forwarding of line 172 follow
DelegateResolve(u, body) ==
    /\ MicrotaskMayRun
    /\ pc[u] = "returned"
    /\ request[u] = "pending"
    /\ onlyData => CanParse(body)
    /\ request' = [request EXCEPT ![u] = "settled"]
    /\ delivered' = [delivered EXCEPT ![u] =
           [state |-> "resolved", value |-> DelegateValue(body), error |-> NoError]]
    /\ defer' = [defer EXCEPT ![u] = delegateThen(defer[u], DelegateValue(body))]
    /\ UNCHANGED <<hasXHR, onlyData, config, file, sent, pc, opts, aborted, xhr, timeoutTimer,
                   upload, finallyRan, uploads, silence, timedOut, cancelled>>

\* what authedRequest may reject with; an AbortError only once its signal fired
DelegateErrors(u) ==
    {parseErrorResponse(400, BodyErr), ConnectionError("fetch failed", MkError("TypeError", "network"))}
    \cup (IF aborted[abortController(u)] THEN {DOMException("Aborted", "AbortError")} ELSE {})

\* lines 164-172: authedRequest rejected with e, forwarded by line 172
DelegateReject(u, e) ==
    /\ MicrotaskMayRun
    /\ pc[u] = "returned"
    /\ request[u] = "pending"
    /\ request' = [request EXCEPT ![u] = "settled"]
    /\ delivered' = [delivered EXCEPT ![u] =
           [state |-> "rejected", value |-> JsonNone, error |-> e]]
    /\ defer' = [defer EXCEPT ![u] = DeferReject(defer[u], e)]
    /\ UNCHANGED <<hasXHR, onlyData, config, file, sent, pc, opts, aborted, xhr, timeoutTimer,
                   upload, finallyRan, uploads, silence, timedOut, cancelled>>

Next ==
    \/ \E u \in Uploads, f \in Files, o \in OptsSet : UploadContentStart(u, f, o)
    \/ \E u \in Uploads : UploadContentReturn(u)
    \/ \E u \in Uploads : CancelUpload(u)
    \/ CallerAbort
    \/ \E u \in Uploads : Finally(u)
    \/ \E u \in Uploads, r \in Responses : XhrDone(u, r[1], r[2])
    \/ \E u \in Uploads, loaded \in 1..MaxLoaded : Progress(u, loaded)
    \/ \E u \in Uploads : TimerFire(u)
    \/ \E d \in Delays \cup Deadlines : Advance(d)
    \/ \E u \in Uploads, body \in Bodies : DelegateResolve(u, body)
    \/ \E u \in Uploads : \E e \in DelegateErrors(u) : DelegateReject(u, e)

Spec == Init /\ [][Next]_vars

\* The calls alone, over every configuration, payload and option: what request
\* each call issues.
RequestNext ==
    \/ \E u \in Uploads, f \in RequestFiles, o \in RequestOpts : UploadContentStart(u, f, o)
    \/ \E u \in Uploads : UploadContentReturn(u)
RequestSpec == RequestInit /\ [][RequestNext]_vars

\* The event loop runs what is queued: a call in progress returns, a queued
\* finally-callback runs, a due timer fires, and time passes.
FairSpec ==
    /\ Spec
    /\ \A u \in Uploads : WF_vars(UploadContentReturn(u))
    /\ \A u \in Uploads : WF_vars(Finally(u))
    /\ \A u \in Uploads : WF_vars(TimerFire(u))
    /\ WF_vars(\E d \in Delays \cup Deadlines : Advance(d))

\* ---------------------------------------------------------------- claims
Rejected(u, name) == defer[u].state = "rejected" /\ defer[u].error.name = name

\* C1: every uploadContent call adds exactly one handle to the registry
\* (appended at the end), a handle leaves the registry only once its upload
\* has settled, the registry never holds a handle twice and lists the
\* remaining handles in insertion order; once an upload has settled and its
\* cleanup has run its handle is gone, and a settled upload's handle is
\* eventually removed (as is, on the streaming transport, every handle).
C1_RegistryShape ==
    /\ \A i, j \in 1..Len(getCurrentUploads) :
           i < j => getCurrentUploads[i] < getCurrentUploads[j]
    /\ \A u \in Uploads : InRegistry(u) => pc[u] = "returned"
    /\ \A u \in Uploads : finallyRan[u] => ~InRegistry(u)
C1_OneHandlePerCall ==
    \A u \in Uploads :
        /\ pc[u] = "at175" /\ pc'[u] = "returned" => uploads' = Append(uploads, u)
        /\ pc'[u] = pc[u] /\ ~InRegistry(u) => ~InRegistry(u)'
        /\ InRegistry(u) /\ ~InRegistry(u)' => Settled(u)'
C1_RegistryBalanced ==
    /\ []C1_RegistryShape
    /\ [][C1_OneHandlePerCall]_vars
    /\ \A u \in Uploads : Settled(u) ~> ~InRegistry(u)
    /\ \A u \in Uploads : (hasXHR /\ InRegistry(u)) ~> ~InRegistry(u)
\* an upload that succeeded, one that failed remotely, and the registry empty again
C1_Witness ==
    /\ hasXHR
    /\ \E u, v \in Uploads :
        /\ u # v
        /\ finallyRan[u] /\ defer[u].state = "resolved"
        /\ finallyRan[v] /\ Rejected(v, "MatrixError")
    /\ uploads = <<>>

\* C2 (as claimed): in every state in which the transfer of an upload has been
\* started, its handle is registered or has been removed by settlement.
C2_PushedBeforeNetwork ==
    \A u \in Uploads :
        (xhr[u].readyState # "NONE" \/ request[u] # "none") => InRegistry(u) \/ Settled(u)
\* C2 (amended): the handle is pushed after the transport is issued but within
\* the same uploadContent call: while the call is in progress nothing has
\* happened to the transfer, and once it has returned the handle is
\* registered or has been removed by settlement.
C2_PushedBeforeAnyCallback ==
    \A u \in Uploads :
        /\ pc[u] = "returned" => InRegistry(u) \/ Settled(u)
        /\ pc[u] = "at175" =>
              /\ ~InRegistry(u) /\ ~Settled(u) /\ InFlight(u)
              /\ upload[u].loaded = 0
              /\ hasXHR => timeoutTimer[u] = setTimeout(TIMEOUT_MS)
C2_Witness ==
    \E u \in Uploads : pc[u] = "returned" /\ InFlight(u) /\ InRegistry(u) /\ ~Settled(u)

\* C3: for every upload whose transport has not settled, whatever controller
\* it was started with, cancelUpload(future) returns true, rejects the
\* future with an AbortError and removes the handle, and a second
\* cancelUpload(future) returns false.
C3_CancelInFlight ==
    \A u \in Uploads :
        /\ pc[u] = "returned" /\ InFlight(u) /\ ~Settled(u) => cancelUploadReturns(u)
        /\ cancelled[u] =>
              /\ Rejected(u, "AbortError")
              /\ ~InRegistry(u)
              /\ ~cancelUploadReturns(u)

\* C4: the deferred, and the returned future, settle at most once, as a
\* success carrying a value or as a rejection carrying an error, and no later
\* event changes the outcome; on the streaming transport the future of every
\* upload eventually settles.
C4_Outcome ==
    \A u \in Uploads :
        /\ defer[u].state = "pending" => defer[u] = PendingDefer
        /\ defer[u].state = "resolved" =>
               defer[u].value.type = "object" /\ defer[u].error = NoError
        /\ defer[u].state = "rejected" =>
               defer[u].value = JsonNone /\ defer[u].error.name # ""
C4_NoResettle ==
    \A u \in Uploads :
        /\ Settled(u) => defer'[u] = defer[u]
        /\ promise(u).state # "pending" => promise(u)' = promise(u)
C4_SettlesOnce ==
    /\ []C4_Outcome
    /\ [][C4_NoResettle]_vars
    /\ \A u \in Uploads : (hasXHR /\ pc[u] = "returned") ~> (promise(u).state # "pending")
\* a late abort of a controller shared with an upload that had already succeeded
C4_Witness ==
    \E u \in Uploads :
        /\ promise(u).state = "resolved"
        /\ aborted[abortController(u)]
        /\ xhr[u].readyState = "UNSENT"

C6_TimeoutError ==
    \A u \in Uploads :
        timedOut[u] => defer[u].state = "rejected" /\ defer[u].error = MkError("Error", "Timeout")

\* C7: a transport that ends with status zero rejects the future with an
\* AbortError, whatever the body and whether or not anyone asked to cancel.
C7_StatusZeroIsAbort ==
    \A u \in Uploads :
        xhr[u].readyState = "DONE" /\ xhr[u].status = 0 => Rejected(u, "AbortError")
\* status zero with a body, no abort requested, no timeout
C7_Witness ==
    \E u \in Uploads :
        /\ xhr[u].readyState = "DONE" /\ xhr[u].status = 0 /\ xhr[u].responseText = BodyOk
        /\ ~aborted[abortController(u)] /\ ~timedOut[u]
        /\ Rejected(u, "AbortError")

EmptySuccess(u) ==
    /\ xhr[u].readyState = "DONE"
    /\ xhr[u].status # 0 /\ xhr[u].status < 400
    /\ xhr[u].responseText = ""
\* C8 (as claimed): an empty body with a success status rejects with an error
\* of a ProtocolError kind, distinct from ConnectionError.
C8_EmptyBodyProtocolError ==
    \A u \in Uploads :
        EmptySuccess(u) =>
            /\ defer[u].state = "rejected"
            /\ defer[u].error.name = "ProtocolError"
            /\ defer[u].error.name # "ConnectionError"
\* C8 (amended): an empty body with a success status rejects with a
\* ConnectionError "request failed" whose cause is the Error "No response
\* body."; it never resolves.
C8_EmptyBodyConnectionError ==
    \A u \in Uploads :
        EmptySuccess(u) =>
            /\ defer[u].state = "rejected"
            /\ defer[u].error =
                   ConnectionError("request failed", MkError("Error", "No response body."))
C8_Witness == \E u \in Uploads : EmptySuccess(u) /\ Rejected(u, "ConnectionError")

\* C9: a terminal response with status >= 400 and a non-empty body rejects
\* with what the error classifier makes of the status and the body, exposing
\* errcode and error when the body is structured; never a success, an abort
\* or a connection error.
C9_RemoteError ==
    \A u \in Uploads :
        xhr[u].readyState = "DONE" /\ xhr[u].status >= 400 /\ xhr[u].responseText # "" =>
            /\ defer[u].state = "rejected"
            /\ defer[u].error = parseErrorResponse(xhr[u].status, xhr[u].responseText)
            /\ defer[u].error.httpStatus = xhr[u].status
            /\ defer[u].error.name \notin {"AbortError", "ConnectionError"}
            /\ xhr[u].responseText = BodyErr =>
                   defer[u].error.errcode = "M_TOO_LARGE" /\ defer[u].error.error = "too big"
C9_Witness ==
    \E u, v \in Uploads :
        /\ xhr[u].readyState = "DONE" /\ xhr[u].status = 400 /\ xhr[u].responseText = BodyErr
        /\ Rejected(u, "MatrixError")
        /\ xhr[v].readyState = "DONE" /\ xhr[v].status = 400 /\ xhr[v].responseText = BodyBad
        /\ Rejected(v, "HTTPError")

\* the result the documented policy selects (lines 54-61)
DocumentedResult(o, responseText) ==
    IF o.rawResponse THEN JsonText(responseText)
    ELSE IF o.onlyContentUri THEN JsonText(JSONParse(responseText).content_uri)
    ELSE JSONParse(responseText)
\* C10: a successful upload resolves to the raw body with rawResponse, else
\* to the content URI alone with onlyContentUri, else to the parsed body.
C10_ResultPolicy ==
    \A u \in Uploads :
        xhr[u].readyState = "DONE" /\ defer[u].state = "resolved" =>
            defer[u].value = DocumentedResult(opts[u], xhr[u].responseText)

\* the handles a step takes out of the registry
Removed == {u \in Uploads : InRegistry(u) /\ ~InRegistry(u)'}
\* the registry after the step is the registry before it less the handles of S
RemovesOnly(S) == uploads' = SelectSeq(uploads, LAMBDA x : x \notin S)

\* C11: cancellation and removal are idempotent. A signal that fires when an
\* upload's future has already settled, or when the upload's own signal has
\* already fired, changes neither that upload's place in the registry nor its
\* outcome; the finally-cleanup takes out its own handle and nothing else,
\* the abort listeners take out the handles listening on the fired signal
\* and nothing else, and a handle that has left the registry never returns,
\* so when both removal paths run the handle leaves exactly once.
C11_IdempotentStep ==
    /\ \A u \in Uploads :
           /\ aborted' # aborted
                  /\ (promise(u).state # "pending"
                        \/ (pc[u] = "returned" /\ aborted[abortController(u)])) =>
                  /\ InRegistry(u)' = InRegistry(u)
                  /\ defer'[u] = defer[u]
                  /\ promise(u)' = promise(u)
           /\ finallyRan'[u] /\ ~finallyRan[u] => RemovesOnly({u}) /\ Removed \subseteq {u}
           /\ pc[u] = "returned" /\ ~InRegistry(u) => ~InRegistry(u)'
    /\ \A c \in Controllers :
           aborted'[c] /\ ~aborted[c] => RemovesOnly(Listeners(c)) /\ Removed \subseteq Listeners(c)
    /\ Len(uploads') <= Len(uploads) => Len(uploads) - Len(uploads') = Cardinality(Removed)
C11_Idempotent == [][C11_IdempotentStep]_vars
\* an upload that succeeded and was cleaned up, then had its signal fired,
\* while another upload is still registered and pending
C11_Witness ==
    \E u, v \in Uploads :
        /\ u # v
        /\ promise(u).state = "resolved"
        /\ aborted[abortController(u)]
        /\ uploads = <<v>> /\ ~Settled(v)

\* C12 (as claimed): in no state in which other code may run is an upload
\* decided while its handle is registered: getCurrentUploads never reports
\* such an upload and cancelUpload never returns true for it.
C12_RemovalSynchronous ==
    MicrotaskMayRun \/ TaskMayStart =>
        \A u \in Uploads :
            Settled(u) =>
                /\ \A i \in 1..Len(getCurrentUploads) : getCurrentUploads[i] # u
                /\ ~cancelUploadReturns(u)
\* C12 (amended): an upload that is decided and still registered has its
\* finally-cleanup queued and not yet run; on the streaming transport that
\* cleanup is the next thing to run, so no task and no other code sees the
\* state; on the delegated transport other code may run first and see it.
C12_RemovalByQueuedCleanup ==
    \A u \in Uploads :
        Settled(u) /\ InRegistry(u) =>
            /\ PendingFinally(u)
            /\ ~TaskMayStart
            /\ hasXHR => ~MicrotaskMayRun
\* a delegated upload decided and registered, with caller code free to run
C12_Witness ==
    \E u \in Uploads :
        /\ ~hasXHR /\ Settled(u) /\ InRegistry(u)
        /\ MicrotaskMayRun /\ cancelUploadReturns(u)

\* C13: on the streaming transport the credential goes in exactly one place:
\* with a token configured, the Authorization header "Bearer <token>" and no
\* access_token parameter when useAuthorizationHeader is on, the access_token
\* parameter and no Authorization header when it is off; with no token
\* configured (undefined or empty), neither.
C13_CredentialOnce ==
    \A u \in Uploads :
        sent[u].transport = "xhr" =>
            LET header == sent[u].Authorization # Undefined
                query == sent[u].access_token # Undefined
                token == config.accessToken
            IN IF token \in {Undefined, ""}
               THEN ~header /\ ~query
               ELSE /\ header # query
                    /\ header <=> config.useAuthorizationHeader
                    /\ header => sent[u].Authorization = "Bearer " \o token
                    /\ query => sent[u].access_token = encodeURIComponent(token)
\* two streaming uploads issued by a client that has a token and puts it in
\* the query string
C13_Witness ==
    /\ hasXHR /\ ~config.useAuthorizationHeader /\ config.accessToken = "syt_a/b"
    /\ \A u \in Uploads : pc[u] = "returned" /\ sent[u].access_token = "syt_a%2Fb"

\* C14: on both transports the filename parameter is sent exactly when
\* includeFilename is not false and the name (opts.name when given, else the
\* payload's name) is a non-empty string, and it then carries that name
\* (percent-encoded by the streaming transport); in every case the transport
\* is issued.
C14_Filename ==
    \A u \in Uploads :
        pc[u] # "idle" =>
            LET name == IF opts[u].name # Undefined THEN opts[u].name ELSE file[u].name
                wanted == opts[u].includeFilename # "false"
                resolvable == name # Undefined /\ name # ""
            IN /\ sent[u].transport = (IF hasXHR THEN "xhr" ELSE "authedRequest")
               /\ sent[u].filename # Undefined <=> wanted /\ resolvable
               /\ wanted /\ resolvable =>
                      sent[u].filename = (IF hasXHR THEN encodeURIComponent(name) ELSE name)
\* opts.name overrides the payload's name on one upload; includeFilename false
\* suppresses the payload's name on the other
C14_Witness ==
    \E u, v \in Uploads :
        /\ file[u].name = "photo.png" /\ opts[u].name = "my file.png"
        /\ sent[u].filename = "my%20file.png"
        /\ file[v].name = "photo.png" /\ opts[v].includeFilename = "false"
        /\ sent[v].transport = "xhr" /\ sent[v].filename = Undefined

\* C15: on the streaming transport an upload never has more than one deadline
\* armed (no timer is left armed behind the one timeoutTimer refers to); a
\* deadline is armed only while the transfer is in flight and undecided, so
\* none remains after settlement by any path; and the timeout callback runs
\* only for an upload that is in flight and undecided.
C15_TimerState ==
    \A u \in Uploads :
        /\ timeoutTimer[u].orphans = 0
        /\ timeoutTimer[u].armed => xhr[u].readyState = "OPENED" /\ ~Settled(u)
        /\ Settled(u) => ~timeoutTimer[u].armed
C15_TimerStep ==
    \A u \in Uploads :
        timedOut'[u] /\ ~timedOut[u] => xhr[u].readyState = "OPENED" /\ ~Settled(u)
C15_OneDeadline == []C15_TimerState /\ [][C15_TimerStep]_vars
\* after a progress tick re-armed the deadline: one upload cancelled, one done
C15_Witness ==
    \E u, v \in Uploads :
        /\ upload[u].loaded > 0 /\ cancelled[u] /\ Settled(u) /\ ~timeoutTimer[u].armed
        /\ upload[v].loaded > 0 /\ xhr[v].readyState = "DONE" /\ ~timeoutTimer[v].armed

\* C16: when the signal of a registered upload fires while its deferred is
\* pending, the same step rejects the deferred with an AbortError and removes
\* the handle, whatever the transport was about to report; and once an
\* upload is rejected with an AbortError and its signal has fired, nothing
\* the transport delivers later changes the outcome.
C16_AbortStep ==
    \A u \in Uploads :
        /\ pc[u] = "returned" /\ ~Settled(u)
              /\ ~aborted[abortController(u)] /\ aborted'[abortController(u)] =>
              /\ Rejected(u, "AbortError")'
              /\ ~InRegistry(u)'
              /\ ~InFlight(u)' \/ ~hasXHR
        /\ aborted[abortController(u)] /\ Rejected(u, "AbortError") =>
              Rejected(u, "AbortError")' /\ defer'[u] = defer[u]
C16_AbortWins == [][C16_AbortStep]_vars
\* a delegated upload cancelled while pending, whose delegate then resolved
\* with a good response: the future keeps the AbortError
C16_Witness ==
    \E u \in Uploads :
        /\ ~hasXHR /\ cancelled[u]
        /\ delivered[u].state = "resolved" /\ delivered[u].value.text = BodyOk
        /\ promise(u).state = "rejected" /\ promise(u).error.name = "AbortError"

\* C17 (as claimed): after a timeout the upload is in the state cancelUpload
\* leaves: the signal of its AbortController aborted, the transfer aborted,
\* the handle out of the registry as of the same step, the future rejected.
C17_TimeoutIsAbort ==
    \A u \in Uploads :
        timedOut[u] =>
            /\ aborted[abortController(u)]
            /\ xhr[u].readyState = "UNSENT"
            /\ ~InRegistry(u)
            /\ defer[u].state = "rejected"
\* C17 (amended): the timeout callback aborts the transfer and rejects the
\* deferred, and does nothing else: the step leaves every abort signal and
\* the registry as they were, and the handle, while still registered, has its
\* finally-cleanup queued.
C17_TimeoutState ==
    \A u \in Uploads :
        timedOut[u] =>
            /\ xhr[u].readyState = "UNSENT"
            /\ defer[u].state = "rejected"
            /\ ~timeoutTimer[u].armed
            /\ InRegistry(u) => PendingFinally(u)
C17_TimeoutStep ==
    \A u \in Uploads :
        timedOut'[u] /\ ~timedOut[u] =>
            /\ aborted' = aborted
            /\ uploads' = uploads /\ InRegistry(u)
C17_TimeoutAbortsTransferOnly == []C17_TimeoutState /\ [][C17_TimeoutStep]_vars
\* a timed-out upload, cleaned up, whose signal never fired
C17_Witness ==
    \E u \in Uploads :
        /\ timedOut[u] /\ finallyRan[u] /\ ~InRegistry(u)
        /\ ~aborted[abortController(u)]

\* C18: a terminal response of the streaming transport is classified in a
\* fixed order, each rule applying only when those before it did not: status
\* zero is an abort; an empty body is the "No response body." error, also
\* when the status is >= 400; a status >= 400 is the classified remote error;
\* anything else is parsed as JSON and resolves, a parse failure rejecting
\* with the wrapped parse error. Each terminal response has one outcome.
C18_Classification ==
    \A u \in Uploads :
        xhr[u].readyState = "DONE" =>
            LET status == xhr[u].status
                responseText == xhr[u].responseText
            IN /\ Settled(u)
               /\ IF status = 0 THEN Rejected(u, "AbortError")
                  ELSE IF responseText = ""
                  THEN Rejected(u, "ConnectionError")
                       /\ defer[u].error.cause = "No response body."
                  ELSE IF status >= 400
                  THEN defer[u].state = "rejected"
                       /\ defer[u].error = parseErrorResponse(status, responseText)
                  ELSE IF CanParse(responseText)
                  THEN defer[u].state = "resolved"
                       /\ defer[u].value = JSONParse(responseText)
                  ELSE Rejected(u, "ConnectionError")
                       /\ defer[u].error.cause = SyntaxError.message
\* an error status with an empty body, and a success status with a body that
\* is not JSON
C18_Witness ==
    \E u, v \in Uploads :
        /\ xhr[u].readyState = "DONE" /\ xhr[u].status = 400 /\ xhr[u].responseText = ""
        /\ Rejected(u, "ConnectionError") /\ defer[u].error.cause = "No response body."
        /\ xhr[v].readyState = "DONE" /\ xhr[v].status = 200 /\ xhr[v].responseText = BodyBad
        /\ Rejected(v, "ConnectionError") /\ defer[v].error.cause = "Unexpected token"

\* C19: on the delegated transport authedRequest is called once per upload,
\* with the signal of the upload's AbortController, and never again after it
\* has settled; while no abort has fired, what it settled with decides the
\* future: its value itself when onlyData is on, the JSON parse of its
\* response otherwise (the parse error when that fails), and its rejection
\* reason unchanged.
C19_DelegateState ==
    \A u \in Uploads :
        /\ ~hasXHR /\ pc[u] # "idle" =>
              /\ sent[u].transport = "authedRequest"
              /\ sent[u].abortSignal = abortController(u)
              /\ request[u] # "none"
        /\ delivered[u].state # "none" /\ ~aborted[abortController(u)] =>
              IF delivered[u].state = "rejected"
              THEN defer[u].state = "rejected" /\ defer[u].error = delivered[u].error
              ELSE IF onlyData
              THEN defer[u].state = "resolved" /\ defer[u].value = delivered[u].value
              ELSE IF CanParse(delivered[u].value.text)
              THEN defer[u].state = "resolved"
                   /\ defer[u].value = JSONParse(delivered[u].value.text)
              ELSE defer[u].state = "rejected" /\ defer[u].error = SyntaxError
C19_DelegateStep ==
    \A u \in Uploads :
        /\ request'[u] = "pending" /\ request[u] # "pending" =>
               request[u] = "none" /\ pc[u] = "idle"
        /\ request[u] = "settled" => request'[u] = "settled" /\ sent'[u] = sent[u]
        /\ delivered[u].state # "none" => delivered'[u] = delivered[u]
C19_DelegateForwarded == []C19_DelegateState /\ [][C19_DelegateStep]_vars
\* with onlyData off: one upload resolved with the parse of the response, one
\* rejected with the delegate's own error
C19_Witness ==
    \E u, v \in Uploads :
        /\ ~onlyData
        /\ delivered[u].state = "resolved" /\ delivered[u].value = Response(BodyOk)
        /\ promise(u).state = "resolved" /\ promise(u).value = JSONParse(BodyOk)
        /\ delivered[v].state = "rejected" /\ promise(v).state = "rejected"
        /\ promise(v).error = delivered[v].error /\ promise(v).error.name = "MatrixError"

\* B is as the step found it: registered where it was, signal, transfer,
\* timer and deferred untouched
Untouched(b) ==
    /\ InRegistry(b)' = InRegistry(b)
    /\ aborted'[abortController(b)] = aborted[abortController(b)]
    /\ xhr'[b] = xhr[b] /\ request'[b] = request[b] /\ timeoutTimer'[b] = timeoutTimer[b]
    /\ defer'[b] = defer[b] /\ upload'[b] = upload[b]
\* the handles that remain keep their order
OrderKept == RemovesOnly(Removed)
\* C20 (as claimed): cancelUpload for a future with no handle in the registry
\* returns false and changes nothing, and for two distinct uploads in flight,
\* whatever their options, cancelUpload of one leaves the other untouched.
C20_CancelFrameStep ==
    /\ \A u \in Uploads :
           CancelUpload(u) /\ ~InRegistry(u) => ~cancelUploadReturns(u) /\ UNCHANGED vars
    /\ \A a, b \in Uploads :
           a # b /\ CancelUpload(a) /\ InRegistry(a) /\ InFlight(a)
               /\ InRegistry(b) /\ InFlight(b) /\ ~Settled(b) =>
               Untouched(b) /\ OrderKept
C20_CancelFrameOwnControllerStep ==
    /\ \A u \in Uploads :
           CancelUpload(u) /\ ~InRegistry(u) => ~cancelUploadReturns(u) /\ UNCHANGED vars
    /\ \A a, b \in Uploads :
           a # b /\ CancelUpload(a) /\ InRegistry(a) /\ InFlight(a)
               /\ InRegistry(b) /\ InFlight(b) /\ ~Settled(b) =>
               /\ abortController(a) # abortController(b) => Untouched(b)
               /\ abortController(a) = abortController(b) /\ ~aborted[abortController(a)] =>
                      Rejected(b, "AbortError")' /\ ~InRegistry(b)'
               /\ OrderKept
====
